---- MODULE Spec2Model ----
(***************************************************************************)
(* SemWiki: the graph-construction-and-resolution core of                  *)
(* src/src/semwiki_parser.py (SemWikiParser) and the search engine of      *)
(* src/src/semwiki_search.py (SemWikiSearch).                              *)
(*                                                                         *)
(* Strings are modelled as sequences of tokens.  A token is either a       *)
(* separator ("/" or "--"), the file suffix ".md", or a piece of text that *)
(* holds no separator.  String concatenation is \o, so an edge id, a       *)
(* classification path and a context path are computed the way the         *)
(* f-strings of the source compute them, and two different (source,        *)
(* relation, target) triples may well format to the same id.  Where the    *)
(* source compares strings character by character (substring tests, case   *)
(* folding, sorting), the strings are spelled one character per token.     *)
(*                                                                         *)
(* A Python dict that is iterated is a sequence of entries in insertion    *)
(* order (graph["nodes"], a block's relations); a dict that is only looked *)
(* up is a function (the taxonomy maps, a node's relations).               *)
(* The file system (staged file creations, the changelog, graph.json) is   *)
(* outside the modelled state.                                             *)
(***************************************************************************)
EXTENDS Integers, Sequences, FiniteSets, TLC

VARIABLES
    nodes,              \* graph["nodes"]: entries in insertion order
    edges,              \* graph["edges"]
    taxonomy_mappings,  \* graph["taxonomy_mappings"]
    taxonomy,           \* self.taxonomy: the three maps
    current_context,    \* self.current_context (NoContext models None)
    last,               \* history: the last call, its arguments and results
    first_result,       \* history: name -> the path its first resolution
                        \* returned, and whether the name was then mapped
    search_index,       \* SemWikiSearch.search_index
    hierarchy_cache,    \* SemWikiSearch.hierarchy_cache
    returned,           \* history: the last call of the search engine and
                        \* what it returned
    now                 \* the clock: what datetime.datetime.now() returns

\* The state of the search engine next to the graph it loaded.
search_vars == <<search_index, hierarchy_cache, returned>>

vars == <<nodes, edges, taxonomy_mappings, taxonomy, current_context, last,
          first_result, search_vars, now>>

----------------------------------------------------------------------------
(* Strings *)

Slash == "/"
Sep == "--"
MdSuffix == ".md"
NoContext == <<>>
EmptyDict == <<>>

Range(s) == {s[i] : i \in 1..Len(s)}

\* str.count(tok)
Count(s, tok) == Cardinality({i \in 1..Len(s) : s[i] = tok})

\* s.split("/")[-1]
LastSegment(s) ==
    LET idx == {i \in 1..Len(s) : s[i] = Slash}
    IN  IF idx = {} THEN s
        ELSE SubSeq(s, (CHOOSE i \in idx : \A j \in idx : j <= i) + 1, Len(s))

\* f"{path}/{base}"
JoinPath(path, base) == path \o <<Slash>> \o base

\* dict[key] = value
Put(d, key, value) ==
    [k \in (DOMAIN d) \cup {key} |-> IF k = key THEN value ELSE d[k]]

\* [f(x) for x in s]
RECURSIVE MapJoin(_, _)
MapJoin(s, base) ==
    IF s = <<>> THEN <<>>
    ELSE <<JoinPath(Head(s), base)>> \o MapJoin(Tail(s), base)

\* s.split("/")
RECURSIVE Split(_)
Split(s) ==
    IF Slash \notin Range(s) THEN <<s>>
    ELSE LET i == CHOOSE k \in 1..Len(s) :
                      s[k] = Slash /\ \A j \in 1..(k - 1) : s[j] # Slash
         IN  <<SubSeq(s, 1, i - 1)>> \o Split(SubSeq(s, i + 1, Len(s)))

\* "/".join(parts)
RECURSIVE Join(_)
Join(parts) ==
    IF parts = <<>> THEN <<>>
    ELSE IF Len(parts) = 1 THEN parts[1]
    ELSE parts[1] \o <<Slash>> \o Join(Tail(parts))

\* a in b, for strings
IsSubstring(a, b) ==
    \E i \in 0..(Len(b) - Len(a)) : SubSeq(b, i + 1, i + Len(a)) = a

\* The characters of the strings that are compared character by character,
\* and their code points.
Letters == <<"a", "b", "c", "d", "e", "f", "g", "h", "i", "j", "k", "l", "m",
             "n", "o", "p", "q", "r", "s", "t", "u", "v", "w", "x", "y", "z">>
Capitals == <<"A", "B", "C", "D", "E", "F", "G", "H", "I", "J", "K", "L", "M",
              "N", "O", "P", "Q", "R", "S", "T", "U", "V", "W", "X", "Y", "Z">>

IndexIn(s, x) == CHOOSE i \in 1..Len(s) : s[i] = x

\* ord(ch)
CodePoint(ch) ==
    CASE ch \in Range(Letters) -> 96 + IndexIn(Letters, ch)
      [] ch \in Range(Capitals) -> 64 + IndexIn(Capitals, ch)
      [] ch = "_" -> 95
      [] ch = Slash -> 47

\* str.lower()
Lower(s) ==
    [i \in 1..Len(s) |->
        IF s[i] \in Range(Capitals) THEN Letters[IndexIn(Capitals, s[i])]
        ELSE s[i]]

\* s < t on Python strings: the first differing character decides, and a
\* proper prefix is smaller.
RECURSIVE StrLess(_, _)
StrLess(s, t) ==
    IF t = <<>> THEN FALSE
    ELSE IF s = <<>> THEN TRUE
    ELSE IF Head(s) = Head(t) THEN StrLess(Tail(s), Tail(t))
    ELSE CodePoint(Head(s)) < CodePoint(Head(t))

----------------------------------------------------------------------------
(* The relation table *)

\* A table whose has_instance does not lead back to is_a.
relation_inverses_one_way ==
    [r \in {"is_a", "has_instance", "part_of", "has_part"} |->
        CASE r = "is_a" -> "has_instance"
          [] r = "has_instance" -> "has_part"
          [] r = "part_of" -> "has_part"
          [] r = "has_part" -> "part_of"]

relation_inverses ==
    [r \in {"is_a", "has_instance", "part_of", "has_part", "located_in",
            "location_of", "created_by", "creator_of", "precedes", "follows",
            "causes", "caused_by", "enables", "enabled_by", "regulates",
            "regulated_by", "offers", "offered_by"} |->
        CASE r = "is_a" -> "has_instance"
          [] r = "has_instance" -> "is_a"
          [] r = "part_of" -> "has_part"
          [] r = "has_part" -> "part_of"
          [] r = "located_in" -> "location_of"
          [] r = "location_of" -> "located_in"
          [] r = "created_by" -> "creator_of"
          [] r = "creator_of" -> "created_by"
          [] r = "precedes" -> "follows"
          [] r = "follows" -> "precedes"
          [] r = "causes" -> "caused_by"
          [] r = "caused_by" -> "causes"
          [] r = "enables" -> "enabled_by"
          [] r = "enabled_by" -> "enables"
          [] r = "regulates" -> "regulated_by"
          [] r = "regulated_by" -> "regulates"
          [] r = "offers" -> "offered_by"
          [] r = "offered_by" -> "offers"]

----------------------------------------------------------------------------
(* The path resolver *)

\* sorted(is_a_values, key=lambda x: x.count("/"), reverse=True): a stable
\* sort, so paths of equal depth keep the order of their declaration.
RECURSIVE InsertByDepth(_, _)
InsertByDepth(sorted, x) ==
    IF sorted = <<>> THEN <<x>>
    ELSE IF Count(Head(sorted), Slash) >= Count(x, Slash)
         THEN <<Head(sorted)>> \o InsertByDepth(Tail(sorted), x)
         ELSE <<x>> \o sorted

RECURSIVE SortByDepth(_)
SortByDepth(paths) ==
    IF paths = <<>> THEN <<>>
    ELSE InsertByDepth(SortByDepth(SubSeq(paths, 1, Len(paths) - 1)),
                       paths[Len(paths)])

\* _get_context_classification: the text after the first "concepts/", with
\* every ".md" removed.
RECURSIVE WithoutMd(_)
WithoutMd(s) ==
    IF s = <<>> THEN <<>>
    ELSE IF Head(s) = MdSuffix THEN WithoutMd(Tail(s))
         ELSE <<Head(s)>> \o WithoutMd(Tail(s))

get_context_classification(ctx) ==
    IF ctx = NoContext THEN <<>>
    ELSE LET at == {i \in 1..(Len(ctx) - 1) :
                        ctx[i] = "concepts" /\ ctx[i + 1] = Slash}
             rel_path == IF at = {} THEN ctx
                         ELSE SubSeq(ctx,
                                (CHOOSE i \in at : \A j \in at : i <= j) + 2,
                                Len(ctx))
         IN  WithoutMd(rel_path)

\* A registration that stores the first declared parent's path.
RegisterFirstDeclared(tax, concept_name, classification_path, all_paths) ==
    [search_to_classification |->
        Put(tax.search_to_classification, concept_name, all_paths[1]),
     classification_to_search |->
        Put(tax.classification_to_search, all_paths[1], concept_name),
     aliases |->
        IF Len(all_paths) > 1
        THEN Put(tax.aliases, concept_name, Tail(all_paths))
        ELSE tax.aliases]

\* The taxonomy registration of resolve_reference (lines 153-159).
RegisterTaxonomy(tax, concept_name, classification_path, all_paths) ==
    [search_to_classification |->
        Put(tax.search_to_classification, concept_name, classification_path),
     classification_to_search |->
        Put(tax.classification_to_search, classification_path, concept_name),
     aliases |->
        IF Len(all_paths) > 1
        THEN Put(tax.aliases, concept_name, Tail(all_paths))
        ELSE tax.aliases]

\* A primary parent taken without sorting.
PrimaryFirstDeclared(is_a_values) == is_a_values[1]

\* The primary parent (lines 143-144).
PrimaryParent(is_a_values) == SortByDepth(is_a_values)[1]

\* The resolution of a name that has no mapping (lines 139-172).
ResolveUnmapped(tax, ctx, concept_name, is_a_values) ==
    IF is_a_values # <<>>
    THEN LET concept_base == LastSegment(concept_name)
             cp == JoinPath(PrimaryParent(is_a_values), concept_base)
             all_paths == MapJoin(is_a_values, concept_base)
         IN  [search_path |-> concept_name, classification_path |-> cp,
              all_paths |-> all_paths,
              taxonomy |-> RegisterTaxonomy(tax, concept_name, cp, all_paths)]
    ELSE IF ctx # NoContext /\ Slash \in Range(ctx)
    THEN LET cp == JoinPath(get_context_classification(ctx),
                            LastSegment(concept_name))
         IN  [search_path |-> concept_name, classification_path |-> cp,
              all_paths |-> <<cp>>, taxonomy |-> tax]
    ELSE [search_path |-> concept_name, classification_path |-> concept_name,
          all_paths |-> <<concept_name>>, taxonomy |-> tax]

\* A resolver that resolves anew whenever parents are declared.
resolve_reference_remap(tax, ctx, concept_name, is_a_values) ==
    IF concept_name \in DOMAIN tax.search_to_classification
       /\ is_a_values = <<>>
    THEN LET cp == tax.search_to_classification[concept_name]
         IN  [search_path |-> concept_name, classification_path |-> cp,
              all_paths |-> <<cp>>, taxonomy |-> tax]
    ELSE ResolveUnmapped(tax, ctx, concept_name, is_a_values)

\* A resolver that records the declared parents of a mapped name as aliases.
resolve_reference_realias(tax, ctx, concept_name, is_a_values) ==
    IF concept_name \in DOMAIN tax.search_to_classification
    THEN LET cp == tax.search_to_classification[concept_name]
         IN  [search_path |-> concept_name, classification_path |-> cp,
              all_paths |-> <<cp>>,
              taxonomy |-> IF is_a_values = <<>> THEN tax
                           ELSE [tax EXCEPT !.aliases =
                                   Put(@, concept_name,
                                       MapJoin(is_a_values,
                                               LastSegment(concept_name)))]]
    ELSE ResolveUnmapped(tax, ctx, concept_name, is_a_values)

\* resolve_reference: the returned tuple and the taxonomy it leaves.
\* is_a_values = <<>> models both None and the empty list.
resolve_reference(tax, ctx, concept_name, is_a_values) ==
    IF concept_name \in DOMAIN tax.search_to_classification
    THEN LET cp == tax.search_to_classification[concept_name]
         IN  [search_path |-> concept_name, classification_path |-> cp,
              all_paths |-> <<cp>>, taxonomy |-> tax]
    ELSE ResolveUnmapped(tax, ctx, concept_name, is_a_values)

----------------------------------------------------------------------------
(* The cycle detector *)

\* is_a_graph (lines 205-211) as a set of <<source, target>> pairs: the is_a
\* edges of the graph and the proposed edge.
IsAPairs(es) ==
    {<<es[i].source, es[i].target>> :
        i \in {j \in 1..Len(es) : es[j].relation = "is_a"}}

NodesOf(pairs) == {p[1] : p \in pairs} \cup {p[2] : p \in pairs}

\* The orders in which Python may iterate a set of these elements.
Orderings(S) ==
    {f \in [1..Cardinality(S) -> S] :
        \A i, j \in 1..Cardinality(S) : i # j => f[i] # f[j]}

\* for neighbor in is_a_graph[node], in the iteration order ord
Neighbors(pairs, ord, node) ==
    SelectSeq(ord, LAMBDA t : <<node, t>> \in pairs)

\* dfs (lines 217-235).  path_stack and visited are shared by the recursive
\* calls in the source, so visited is handed back with the result; a result
\* of <<>> is None.
RECURSIVE dfs(_, _, _, _, _)
RECURSIVE dfs_neighbors(_, _, _, _, _)
\* A search that takes every node it has seen before for a cycle.
dfs_seen_is_cycle(pairs, ord, node, path_stack, visited) ==
    IF node \in Range(path_stack) \/ node \in visited
    THEN [cycle |-> path_stack \o <<node>>, visited |-> visited]
    ELSE dfs_neighbors(pairs, ord, Neighbors(pairs, ord, node),
                       Append(path_stack, node), visited \cup {node})

dfs(pairs, ord, node, path_stack, visited) ==
    IF node \in Range(path_stack)
    THEN LET cycle_start == CHOOSE i \in 1..Len(path_stack) :
                                /\ path_stack[i] = node
                                /\ \A j \in 1..(i - 1) : path_stack[j] # node
         IN  [cycle |-> SubSeq(path_stack, cycle_start, Len(path_stack))
                            \o <<node>>,
              visited |-> visited]
    ELSE IF node \in visited
    THEN [cycle |-> <<>>, visited |-> visited]
    ELSE dfs_neighbors(pairs, ord, Neighbors(pairs, ord, node),
                       Append(path_stack, node), visited \cup {node})

dfs_neighbors(pairs, ord, nbrs, path_stack, visited) ==
    IF nbrs = <<>> THEN [cycle |-> <<>>, visited |-> visited]
    ELSE LET result == dfs(pairs, ord, Head(nbrs), path_stack, visited)
         IN  IF result.cycle # <<>> THEN result
             ELSE dfs_neighbors(pairs, ord, Tail(nbrs), path_stack,
                                result.visited)

\* A detector that searches the graph without the proposed edge.
detect_without_proposed_edge(es, source, target, relation, ord) ==
    IF relation # "is_a" THEN <<>>
    ELSE dfs(IsAPairs(es), ord, source, <<>>, {}).cycle

\* detect_circular_reference: the cycle path, or <<>> for None.
detect_circular_reference(es, source, target, relation, ord) ==
    IF relation # "is_a" THEN <<>>
    ELSE dfs(IsAPairs(es) \cup {<<source, target>>}, ord, source, <<>>, {}).cycle

----------------------------------------------------------------------------
(* The graph store.  A graph G is [nodes, edges, taxonomy_mappings], with *)
(* the reading of the clock during the call in G.now.                    *)

HasNode(ns, id) == \E i \in 1..Len(ns) : ns[i].id = id
NodeIndex(ns, id) == CHOOSE i \in 1..Len(ns) : ns[i].id = id
NodeOf(ns, id) == ns[NodeIndex(ns, id)]

\* f"{source}--{rel_type}--{target}"
EdgeId(source, rel_type, target) == source \o <<Sep, rel_type, Sep>> \o target

\* A duplicate check that never finds the edge.
ExistingEdgeNever(es, edge_id) == FALSE

\* next((e for e in edges if e["id"] == edge_id), None) is not None
ExistingEdge(es, edge_id) == \E i \in 1..Len(es) : es[i].id = edge_id

\* Lines 552-556 and 581-585: the owner's relations list, only when the
\* owner is a node of the graph.
UpdateNodeRelations(ns, owner, rel_type, other) ==
    IF ~HasNode(ns, owner) THEN ns
    ELSE LET i == NodeIndex(ns, owner)
             rels == ns[i].relations
             lst == IF rel_type \in DOMAIN rels THEN rels[rel_type] ELSE <<>>
         IN  [ns EXCEPT ![i].relations =
                 Put(rels, rel_type,
                     IF other \in Range(lst) THEN lst ELSE Append(lst, other))]

\* An inverse insertion that mirrors a relation the table does not hold.
add_inverse_relation_mirror(G, source, rel_type, target, source_file) ==
    LET inverse_type == IF rel_type \in DOMAIN relation_inverses
                        THEN relation_inverses[rel_type] ELSE rel_type
        edge_id == EdgeId(target, inverse_type, source)
    IN  IF ExistingEdge(G.edges, edge_id) THEN G
        ELSE [G EXCEPT
                !.edges = Append(@, [id |-> edge_id, source |-> target,
                                     relation |-> inverse_type,
                                     target |-> source,
                                     source_file |-> source_file,
                                     created |-> G.now]),
                !.nodes = UpdateNodeRelations(@, target, inverse_type,
                                              source)]

\* _add_inverse_relation
add_inverse_relation(G, source, rel_type, target, source_file) ==
    IF rel_type \notin DOMAIN relation_inverses THEN G
    ELSE LET inverse_type == relation_inverses[rel_type]
             edge_id == EdgeId(target, inverse_type, source)
         IN  IF ExistingEdge(G.edges, edge_id) THEN G
             ELSE [G EXCEPT
                     !.edges = Append(@, [id |-> edge_id, source |-> target,
                                          relation |-> inverse_type,
                                          target |-> source,
                                          source_file |-> source_file,
                                          created |-> G.now]),
                     !.nodes = UpdateNodeRelations(@, target, inverse_type,
                                                   source)]

\* The cycle check of _add_relation (lines 529-533).
CycleDetected(es, source, rel_type, target, ord) ==
    /\ rel_type = "is_a"
    /\ detect_circular_reference(es, source, target, "is_a", ord) # <<>>

\* An insertion that, on a cycle, drops the edge but still adds its inverse.
add_relation_partial(G, source, rel_type, target, source_file, ord) ==
    IF CycleDetected(G.edges, source, rel_type, target, ord)
    THEN add_inverse_relation(G, source, rel_type, target, source_file)
    ELSE LET edge_id == EdgeId(source, rel_type, target)
         IN  IF ExistingEdge(G.edges, edge_id) THEN G
             ELSE add_inverse_relation(
                    [G EXCEPT
                       !.edges = Append(@, [id |-> edge_id, source |-> source,
                                            relation |-> rel_type,
                                            target |-> target,
                                            source_file |-> source_file,
                                            created |-> G.now]),
                       !.nodes = UpdateNodeRelations(@, source, rel_type,
                                                     target)],
                    source, rel_type, target, source_file)

\* _add_relation
add_relation(G, source, rel_type, target, source_file, ord) ==
    IF CycleDetected(G.edges, source, rel_type, target, ord) THEN G
    ELSE LET edge_id == EdgeId(source, rel_type, target)
         IN  IF ExistingEdge(G.edges, edge_id) THEN G
             ELSE add_inverse_relation(
                    [G EXCEPT
                       !.edges = Append(@, [id |-> edge_id, source |-> source,
                                            relation |-> rel_type,
                                            target |-> target,
                                            source_file |-> source_file,
                                            created |-> G.now]),
                       !.nodes = UpdateNodeRelations(@, source, rel_type,
                                                     target)],
                    source, rel_type, target, source_file)

\* for t in target: self._add_relation(search_path, rel_type, t, source_file)
RECURSIVE AddTargets(_, _, _, _, _, _)
AddTargets(G, search_path, rel_type, targets, source_file, ord) ==
    IF targets = <<>> THEN G
    ELSE AddTargets(add_relation(G, search_path, rel_type, Head(targets),
                                 source_file, ord),
                    search_path, rel_type, Tail(targets), source_file, ord)

\* for rel_type, target in concept["relations"].items(): ...
\* A value that is a single string is the list of that one string.
RECURSIVE AddRelations(_, _, _, _, _)
AddRelations(G, search_path, relations, source_file, ord) ==
    IF relations = <<>> THEN G
    ELSE AddRelations(AddTargets(G, search_path, Head(relations).key,
                                 Head(relations).value, source_file, ord),
                      search_path, Tail(relations), source_file, ord)

\* A node update that takes the classification path of the latest occurrence.
EnsureNodeRewrite(ns, search_path, classification_path, source_file, created) ==
    IF ~HasNode(ns, search_path)
    THEN Append(ns, [id |-> search_path,
                     classification_path |-> classification_path,
                     created |-> created,
                     sources |-> <<source_file>>,
                     relations |-> EmptyDict])
    ELSE LET i == NodeIndex(ns, search_path)
         IN  [ns EXCEPT ![i].classification_path = classification_path,
                        ![i].sources = IF source_file \in Range(@) THEN @
                                       ELSE Append(@, source_file)]

\* A node update that stamps the node anew at every occurrence.
EnsureNodeRestamp(ns, search_path, classification_path, source_file, created) ==
    IF ~HasNode(ns, search_path)
    THEN Append(ns, [id |-> search_path,
                     classification_path |-> classification_path,
                     created |-> created,
                     sources |-> <<source_file>>,
                     relations |-> EmptyDict])
    ELSE LET i == NodeIndex(ns, search_path)
         IN  [ns EXCEPT ![i].created = created,
                        ![i].sources = IF source_file \in Range(@) THEN @
                                       ELSE Append(@, source_file)]

\* Create or update node (lines 500-513).
EnsureNode(ns, search_path, classification_path, source_file, created) ==
    IF ~HasNode(ns, search_path)
    THEN Append(ns, [id |-> search_path,
                     classification_path |-> classification_path,
                     created |-> created,
                     sources |-> <<source_file>>,
                     relations |-> EmptyDict])
    ELSE LET i == NodeIndex(ns, search_path)
         IN  IF source_file \in Range(ns[i].sources) THEN ns
             ELSE [ns EXCEPT ![i].sources = Append(@, source_file)]

\* add_to_graph
RECURSIVE add_to_graph(_, _, _)
add_to_graph(G, parsed_concepts, ord) ==
    IF parsed_concepts = <<>> THEN G
    ELSE LET concept == Head(parsed_concepts)
             G1 == [G EXCEPT
                      !.nodes = EnsureNode(@, concept.search_path,
                                           concept.classification_path,
                                           concept.source_file, G.now),
                      !.taxonomy_mappings =
                          Put(@, concept.search_path,
                              concept.classification_path)]
         IN  add_to_graph(AddRelations(G1, concept.search_path,
                                       concept.relations, concept.source_file,
                                       ord),
                          Tail(parsed_concepts), ord)

----------------------------------------------------------------------------
(* The document parser.  The content of a file is the sequence of its     *)
(* [[concept]]{relations} blocks, each [name, relations], relations being *)
(* the dict parse_relations returns: entries [key, value] in the order of *)
(* the text.                                                              *)

\* relations.get("is_a", [])
IsAValues(relations) ==
    LET at == {i \in 1..Len(relations) : relations[i].key = "is_a"}
    IN  IF at = {} THEN <<>> ELSE relations[CHOOSE i \in at : TRUE].value

\* parse_file: the parsed concepts and the taxonomy it leaves
\* (current_context is set by the caller's action).
RECURSIVE parse_file(_, _, _)
parse_file(tax, file_path, content) ==
    IF content = <<>> THEN [parsed_concepts |-> <<>>, taxonomy |-> tax]
    ELSE LET block == Head(content)
             r == resolve_reference(tax, file_path, block.name,
                                    IsAValues(block.relations))
             rest == parse_file(r.taxonomy, file_path, Tail(content))
         IN  [parsed_concepts |->
                 <<[search_path |-> r.search_path,
                    classification_path |-> r.classification_path,
                    all_paths |-> r.all_paths,
                    relations |-> block.relations,
                    source_file |-> file_path]>> \o rest.parsed_concepts,
              taxonomy |-> rest.taxonomy]

----------------------------------------------------------------------------
(* The search engine.  The "node" field of an index entry and of a result, *)
(* a reference to the node's data, is left out.                            *)

\* defaultdict(list): index[key].append(entry)
AppendTo(index, key, entry) ==
    Put(index, key,
        (IF key \in DOMAIN index THEN index[key] ELSE <<>>) \o <<entry>>)

\* for i, part in enumerate(parts): ... (lines 79-89); i counts from 1 here,
\* so the specificity i + 1 of the source is i.
RECURSIVE IndexParts(_, _, _, _)
IndexParts(index, node, parts, i) ==
    IF i > Len(parts) THEN index
    ELSE IndexParts(
            AppendTo(index, Lower(parts[i]),
                     [search_path |-> node.id,
                      classification_path |-> node.classification_path,
                      depth |-> Count(node.classification_path, Slash),
                      specificity |-> i,
                      is_partial |-> i < Len(parts)]),
            node, parts, i + 1)

\* The body of the node loop of build_search_index (lines 61-89).
IndexNode(index, node) ==
    LET classification_path == node.classification_path
        concept_name == LastSegment(classification_path)
        depth == Count(classification_path, Slash)
        by_name == AppendTo(index, Lower(concept_name),
                            [search_path |-> node.id,
                             classification_path |-> classification_path,
                             depth |-> depth,
                             specificity |-> depth + 1])
    IN  IndexParts(by_name, node, Split(classification_path), 1)

RECURSIVE IndexNodes(_, _)
IndexNodes(index, ns) ==
    IF ns = <<>> THEN index
    ELSE IndexNodes(IndexNode(index, Head(ns)), Tail(ns))

\* build_search_index: the index it leaves
build_search_index(ns) == IndexNodes(EmptyDict, ns)

max_depth == 10

\* A loop condition that allows one hop more.
WithinHopCapInclusive(depth) == depth <= max_depth

\* depth < max_depth (line 125)
WithinHopCap(depth) == depth < max_depth

\* The while loop of get_parent_hierarchy (lines 125-144); visited holds
\* what hierarchy holds.
RECURSIVE Climb(_, _, _, _)
Climb(ns, current, depth, hierarchy) ==
    IF current = <<>> \/ ~WithinHopCap(depth) THEN hierarchy
    ELSE LET is_a_targets ==
                 IF HasNode(ns, current)
                    /\ "is_a" \in DOMAIN NodeOf(ns, current).relations
                 THEN NodeOf(ns, current).relations["is_a"]
                 ELSE <<>>
         IN  IF is_a_targets = <<>> THEN hierarchy
             ELSE LET target == is_a_targets[1]
                      target_classification ==
                          IF HasNode(ns, target)
                          THEN NodeOf(ns, target).classification_path
                          ELSE target
                  IN  Climb(ns, target, depth + 1,
                            IF target_classification \in Range(hierarchy)
                            THEN hierarchy
                            ELSE Append(hierarchy, target_classification))

\* for i in range(len(parts) - 1, 0, -1): ... (lines 112-117)
RECURSIVE LexicalParents(_, _, _)
LexicalParents(parts, i, hierarchy) ==
    IF i = 0 THEN hierarchy
    ELSE LET parent_path == Join(SubSeq(parts, 1, i))
         IN  LexicalParents(parts, i - 1,
                            IF parent_path \in Range(hierarchy) THEN hierarchy
                            ELSE Append(hierarchy, parent_path))

\* get_parent_hierarchy: the list it returns and the cache it leaves.  A
\* node whose id is the empty string counts as not found (line 110).
get_parent_hierarchy(ns, cache, classification_path) ==
    IF classification_path \in DOMAIN cache
    THEN [hierarchy |-> cache[classification_path], cache |-> cache]
    ELSE LET owners == {i \in 1..Len(ns) :
                           ns[i].classification_path = classification_path}
             search_path ==
                 IF owners = {} THEN <<>>
                 ELSE ns[CHOOSE i \in owners : \A j \in owners : i <= j].id
         IN  IF search_path = <<>>
             THEN [hierarchy |->
                      LexicalParents(Split(classification_path),
                                     Len(Split(classification_path)) - 1,
                                     <<classification_path>>),
                   cache |-> cache]
             ELSE LET hierarchy == Climb(ns, search_path, 0,
                                         <<classification_path>>)
                  IN  [hierarchy |-> hierarchy,
                       cache |-> Put(cache, classification_path, hierarchy)]

\* query_lower in part.lower() or part.lower() in query_lower
Matches(query_lower, part) ==
    \/ IsSubstring(query_lower, Lower(part))
    \/ IsSubstring(Lower(part), query_lower)

\* A match index that is the last matching segment.
MatchIndexLast(node, query_lower) ==
    LET parts == Split(node.classification_path)
        hits == {i \in 1..Len(parts) : Matches(query_lower, parts[i])}
        node_parts == Split(node.id)
    IN  IF hits # {} THEN CHOOSE i \in hits : \A j \in hits : j <= i
        ELSE IF \E i \in 1..Len(node_parts) :
                    Matches(query_lower, node_parts[i])
        THEN Len(parts)
        ELSE 0

\* A match index whose fallback is the first segment.
MatchIndexFallbackFirst(node, query_lower) ==
    LET parts == Split(node.classification_path)
        hits == {i \in 1..Len(parts) : Matches(query_lower, parts[i])}
        node_parts == Split(node.id)
    IN  IF hits # {} THEN CHOOSE i \in hits : \A j \in hits : i <= j
        ELSE IF \E i \in 1..Len(node_parts) :
                    Matches(query_lower, node_parts[i])
        THEN 1
        ELSE 0

\* match_index of lines 165-179, counted from 1; 0 is None.
MatchIndex(node, query_lower) ==
    LET parts == Split(node.classification_path)
        hits == {i \in 1..Len(parts) : Matches(query_lower, parts[i])}
        node_parts == Split(node.id)
    IN  IF hits # {} THEN CHOOSE i \in hits : \A j \in hits : i <= j
        ELSE IF \E i \in 1..Len(node_parts) :
                    Matches(query_lower, node_parts[i])
        THEN Len(parts)
        ELSE 0

\* A scan that keeps every match, duplicates of a truncated path included.
RECURSIVE ScanNodesKeepAll(_, _, _, _)
ScanNodesKeepAll(ns, query_lower, results, seen) ==
    IF ns = <<>> THEN results
    ELSE LET node == Head(ns)
             parts == Split(node.classification_path)
             match_index == MatchIndex(node, query_lower)
             truncated_path == Join(SubSeq(parts, 1, match_index))
         IN  IF match_index = 0
             THEN ScanNodesKeepAll(Tail(ns), query_lower, results, seen)
             ELSE ScanNodesKeepAll(
                     Tail(ns), query_lower,
                     Append(results,
                            [search_path |-> node.id,
                             classification_path |-> truncated_path,
                             full_classification_path |->
                                 node.classification_path,
                             depth |-> match_index - 1,
                             specificity |-> match_index,
                             matched_term |-> parts[match_index]]),
                     seen \cup {truncated_path})

\* The node loop of search (lines 161-201).
RECURSIVE ScanNodes(_, _, _, _)
ScanNodes(ns, query_lower, results, seen) ==
    IF ns = <<>> THEN results
    ELSE LET node == Head(ns)
             parts == Split(node.classification_path)
             match_index == MatchIndex(node, query_lower)
             truncated_path == Join(SubSeq(parts, 1, match_index))
         IN  IF match_index = 0 \/ truncated_path \in seen
             THEN ScanNodes(Tail(ns), query_lower, results, seen)
             ELSE ScanNodes(
                     Tail(ns), query_lower,
                     Append(results,
                            [search_path |-> node.id,
                             classification_path |-> truncated_path,
                             full_classification_path |->
                                 node.classification_path,
                             depth |-> match_index - 1,
                             specificity |-> match_index,
                             matched_term |-> parts[match_index]]),
                     seen \cup {truncated_path})

\* A sort key that is the specificity alone.
KeyLessSpecificityOnly(x, y) == x.specificity > y.specificity

\* (-x["specificity"], x["classification_path"]) < (-y[...], y[...])
KeyLess(x, y) ==
    \/ x.specificity > y.specificity
    \/ /\ x.specificity = y.specificity
       /\ StrLess(x.classification_path, y.classification_path)

\* results.sort(key=...): a stable sort
RECURSIVE InsertByKey(_, _)
InsertByKey(sorted, x) ==
    IF sorted = <<>> THEN <<x>>
    ELSE IF KeyLess(x, Head(sorted)) THEN <<x>> \o sorted
    ELSE <<Head(sorted)>> \o InsertByKey(Tail(sorted), x)

RECURSIVE SortResults(_)
SortResults(results) ==
    IF results = <<>> THEN <<>>
    ELSE InsertByKey(SortResults(SubSeq(results, 1, Len(results) - 1)),
                     results[Len(results)])

\* for result in results: result["hierarchy"] = ... (lines 205-207)
RECURSIVE Enrich(_, _, _)
Enrich(ns, results, cache) ==
    IF results = <<>> THEN [results |-> <<>>, cache |-> cache]
    ELSE LET h == get_parent_hierarchy(ns, cache,
                                       Head(results).classification_path)
             rest == Enrich(ns, Tail(results), h.cache)
         IN  [results |-> <<[hierarchy |-> h.hierarchy] @@ Head(results)>>
                              \o rest.results,
              cache |-> rest.cache]

\* search: the list it returns and the hierarchy cache it leaves
search(ns, cache, query, include_hierarchy) ==
    LET results == SortResults(ScanNodes(ns, Lower(query), <<>>, {}))
    IN  IF include_hierarchy THEN Enrich(ns, results, cache)
        ELSE [results |-> results, cache |-> cache]

----------------------------------------------------------------------------
(* Bounds and inputs *)

MaxEdges == 4       \* edges in the graph of Spec
MaxIsAEdges == 6    \* edges in the graph of SpecIsA
MaxParents == 2     \* declared parents of one resolution
MaxDocEdges == 4    \* edges in the graph of SpecDocs
MaxBlocks == 2      \* blocks of the file a searched graph was built from
ChainLength == 12   \* nodes of the is_a chain
MaxTime == 1        \* readings of the clock after the first
MaxStoreEdges == 3  \* edges in the graph of SpecStore
MaxCycleEdges == 5  \* edges in the graph of SpecCycle
MaxLoopBlocks == 2  \* blocks in the file whose graph SpecLoop reads

A == <<"a">>
B == <<"b">>
X == <<"a", Sep, "has_part", Sep, "a">>          \* the name "a--has_part--a"
Z == <<"z">>
BF == <<"b", Slash, "f">>                        \* the name "b/f"
PX == <<"x">>
PXY == <<"x", Slash, "y">>

Doc1 == <<"concepts", Slash, "x", Slash, "d", MdSuffix>>   \* concepts/x/d.md
Doc2 == <<"n", MdSuffix>>                                  \* n.md
Docs == {Doc1, Doc2}
Doc3 == <<"concepts", Slash, "d", MdSuffix>>               \* concepts/d.md
Doc4 == <<"notes", Slash, "d", MdSuffix>>                  \* notes/d.md
ContextDocs == {Doc1, Doc2, Doc3, Doc4}

\* The _add_relation calls of Spec, <<source, rel_type, target>>: every
\* relation between a and b, and the part relations of "a--has_part--a".
GraphCalls ==
    ({A, B} \X {"is_a", "has_instance"} \X {A, B})
        \cup ({X} \X {"part_of", "has_part"} \X {A})
IsANames == {A, B, <<"c">>}
ParentPaths == {PX, PXY}

SeqsUpTo(S, n) == UNION {[1..k -> S] : k \in 0..n}

\* The resolve_reference calls of SpecResolve, <<concept_name, is_a_values>>:
\* "z" with every list of declared parents, "b/f" with three of them.
ResolveCalls ==
    ({Z} \X SeqsUpTo(ParentPaths, MaxParents))
        \cup ({BF} \X {<<>>, <<PXY>>, <<PX, PXY>>})

\* The _add_relation calls of SpecStore and the blocks of its files,
\* [[a]]{is_a: b} and [[b]]{ }.
StoreCalls == {<<B, "is_a", A>>, <<A, "related_to", B>>}
StoreBlocks == {[name |-> A, relations |-> <<[key |-> "is_a", value |-> <<B>>]>>],
                [name |-> B, relations |-> <<>>]}

\* The _add_relation calls of SpecCycle: every is_a edge between a, b and c,
\* and two has_instance edges, whose inverses are is_a edges.  The relations
\* detect_circular_reference is called with.
CycleCalls ==
    (IsANames \X {"is_a"} \X IsANames)
        \cup {<<B, "has_instance", B>>, <<<<"c">>, "has_instance", B>>}
DetectRelations == {"is_a", "has_instance", "part_of"}

\* The resolve_reference calls of SpecShared: the names "z", "q/z" and "b/f"
\* with no parent or one.
QZ == <<"q", Slash, "z">>
SharedCalls == {Z, QZ, BF} \X {<<>>, <<PX>>, <<PXY>>}

\* The blocks of the file concepts/d.md whose graph SpecLoop reads:
\* [[z]]{ }, [[q/z]]{ }, [[q/z]]{is_a: d, has_instance: z},
\* [[z]]{is_a: q/z, has_instance: q/z}, [[w]]{is_a: [d, d/y]} and
\* [[w]]{is_a: [d/y, d]}.
W == <<"w">>
D == <<"d">>
DY == <<"d", Slash, "y">>
LoopBlocks ==
    {[name |-> Z, relations |-> <<>>],
     [name |-> QZ, relations |-> <<>>],
     [name |-> QZ, relations |-> <<[key |-> "is_a", value |-> <<D>>],
                                   [key |-> "has_instance", value |-> <<Z>>]>>],
     [name |-> Z, relations |-> <<[key |-> "is_a", value |-> <<QZ>>],
                                  [key |-> "has_instance", value |-> <<QZ>>]>>],
     [name |-> W, relations |-> <<[key |-> "is_a", value |-> <<D, DY>>]>>],
     [name |-> W, relations |-> <<[key |-> "is_a", value |-> <<DY, D>>]>>]}

\* The taxonomy.json a parser may find at construction.
LoadedTaxonomies ==
    {[search_to_classification |-> EmptyDict,
      classification_to_search |-> EmptyDict, aliases |-> EmptyDict],
     [search_to_classification |-> Put(EmptyDict, BF, <<"q", Slash, "f">>),
      classification_to_search |-> Put(EmptyDict, <<"q", Slash, "f">>, BF),
      aliases |-> EmptyDict]}

\* The blocks of the files Spec processes: [[a]]{ }, [[a]]{is_a: b},
\* [[b]]{is_a: [a, b]} and [[b]]{part_of: a, tag: a}.
GraphBlocks ==
    {[name |-> A, relations |-> <<>>],
     [name |-> A, relations |-> <<[key |-> "is_a", value |-> <<B>>]>>],
     [name |-> B, relations |-> <<[key |-> "is_a", value |-> <<A, B>>]>>],
     [name |-> B, relations |-> <<[key |-> "part_of", value |-> <<A>>],
                                  [key |-> "tag", value |-> <<A>>]>>]}

\* The blocks of the files SpecResolve parses.
ResolveBlocks ==
    {[name |-> Z, relations |-> <<>>],
     [name |-> Z, relations |-> <<[key |-> "is_a", value |-> <<PX>>]>>],
     [name |-> BF, relations |-> <<[key |-> "is_a", value |-> <<PXY, PX>>]>>]}

\* The names of the bank documents, one character per token.
Bank == <<"b", "a", "n", "k">>
Financial == <<"f", "i", "n", "a", "n", "c", "i", "a", "l">>
Institution == <<"i", "n", "s", "t", "i", "t", "u", "t", "i", "o", "n">>
CreditUnion == <<"c", "r", "e", "d", "i", "t", "_", "u", "n", "i", "o", "n">>
BankFinancial == JoinPath(Bank, Financial)                 \* bank/financial
InstitutionFinancial == JoinPath(Institution, Financial)

\* The files SpecDocs processes:
\*   [[bank]]{ }
\*   [[bank]]{is_a: institution/financial}
\*       [[credit_union]]{is_a: bank/financial}
\*   [[bank/financial]]{is_a: institution/financial}
\*       [[credit_union]]{is_a: bank/financial}
\*   [[credit_union]]{is_a: [institution/financial, bank/financial]}
BankBlock(name) ==
    [name |-> name,
     relations |-> <<[key |-> "is_a", value |-> <<InstitutionFinancial>>]>>]
CreditUnionBlock ==
    [name |-> CreditUnion,
     relations |-> <<[key |-> "is_a", value |-> <<BankFinancial>>]>>]
DocContents ==
    {<<[name |-> Bank, relations |-> <<>>]>>,
     <<BankBlock(Bank), CreditUnionBlock>>,
     <<BankBlock(BankFinancial), CreditUnionBlock>>,
     <<[name |-> CreditUnion,
        relations |-> <<[key |-> "is_a",
                         value |-> <<InstitutionFinancial, BankFinancial>>]>>]>>}

\* The blocks of the files whose graph SpecSearch searches:
\* [[c]]{is_a: a/b}, [[e/c]]{is_a: a/b}, [[d/b]]{is_a: a/B}, [[b]]{ } and
\* [[d/e/c]]{is_a: a/b}.
ChildOf(name, parent) ==
    [name |-> name, relations |-> <<[key |-> "is_a", value |-> <<parent>>]>>]
SearchBlocks ==
    {ChildOf(<<"c">>, <<"a", Slash, "b">>),
     ChildOf(<<"e", Slash, "c">>, <<"a", Slash, "b">>),
     ChildOf(<<"d", Slash, "b">>, <<"a", Slash, "B">>),
     [name |-> <<"b">>, relations |-> <<>>],
     ChildOf(<<"d", Slash, "e", Slash, "c">>, <<"a", Slash, "b">>)}

\* The file of the is_a chain: [[a]]{is_a: b}, [[b]]{is_a: c}, ... and a last
\* block without relations, ChainLength blocks in all.
ChainFile ==
    [i \in 1..ChainLength |->
        IF i < ChainLength THEN ChildOf(<<Letters[i]>>, <<Letters[i + 1]>>)
        ELSE [name |-> <<Letters[i]>>, relations |-> <<>>]]

\* What a parser that started empty leaves in graph.json after the file n.md
\* of the chain: node i is the letter i, classified under the letter i + 1,
\* its is_a target; the last node is a root.
ChainPath(i) ==
    IF i < ChainLength THEN <<Letters[i + 1], Slash, Letters[i]>>
    ELSE <<Letters[i]>>
ChainNodes ==
    [i \in 1..ChainLength |->
        [id |-> <<Letters[i]>>,
         classification_path |-> ChainPath(i),
         created |-> 0,
         sources |-> <<Doc2>>,
         relations |-> IF i < ChainLength
                       THEN [is_a |-> <<<<Letters[i + 1]>>>>]
                       ELSE EmptyDict]]
ChainEdges ==
    [k \in 1..(2 * (ChainLength - 1)) |->
        LET i == (k + 1) \div 2
            lower == <<Letters[i]>>
            upper == <<Letters[i + 1]>>
        IN  IF k % 2 = 1
            THEN [id |-> EdgeId(lower, "is_a", upper), source |-> lower,
                  relation |-> "is_a", target |-> upper,
                  source_file |-> Doc2, created |-> 0]
            ELSE [id |-> EdgeId(upper, "has_instance", lower),
                  source |-> upper, relation |-> "has_instance",
                  target |-> lower, source_file |-> Doc2, created |-> 0]]

\* The classification path of the most specific node of the chain, and the
\* paths whose hierarchy SpecChain asks for.
ChainHead == ChainPath(1)
ChainQueries == {ChainPath(i) : i \in 1..7}

\* The files a searched graph was built from: up to MaxBlocks different
\* blocks in any order.
SearchFiles ==
    {content \in SeqsUpTo(SearchBlocks, MaxBlocks) :
        \A i, j \in 1..Len(content) : content[i] = content[j] => i = j}

\* The terms searched for and the paths whose hierarchy is asked for.
SearchTerms == {<<"a">>, <<"b">>, <<"B">>, <<"c">>, <<"e">>}
HierarchyPaths ==
    {<<"a", Slash, "b", Slash, "c">>, <<"a", Slash, "b">>, <<"b">>}

\* The files SpecResolve parses: one block, or two different blocks.
ResolveContents ==
    {<<b>> : b \in ResolveBlocks}
        \cup {c \in {<<b1, b2>> : b1, b2 \in ResolveBlocks} : c[1] # c[2]}

----------------------------------------------------------------------------
(* History *)

NoCall == [op |-> "init", source |-> <<>>, relation |-> "", target |-> <<>>,
           cycle |-> FALSE, repeat |-> FALSE, refresh |-> FALSE,
           calls |-> <<>>]

\* last.repeat: the call repeats the call before it, with the same arguments;
\* last.refresh: and that call had found the name unmapped.
\* One resolve_reference call: its arguments, the context it ran in, whether
\* the name was unmapped when it was made, and the path it returned.
CallRecord(tax, ctx, concept_name, is_a_values) ==
    [name |-> concept_name, parents |-> is_a_values, ctx |-> ctx,
     fresh |-> concept_name \notin DOMAIN tax.search_to_classification,
     result |-> resolve_reference(tax, ctx, concept_name,
                                  is_a_values).classification_path]

\* The resolve_reference calls parse_file makes, in order.
RECURSIVE ParseCalls(_, _, _)
ParseCalls(tax, file_path, content) ==
    IF content = <<>> THEN <<>>
    ELSE LET block == Head(content)
             is_a_values == IsAValues(block.relations)
         IN  <<CallRecord(tax, file_path, block.name, is_a_values)>>
             \o ParseCalls(resolve_reference(tax, file_path, block.name,
                                             is_a_values).taxonomy,
                           file_path, Tail(content))

\* A call leaves the name mapped when it found it mapped or declared parents.
RECURSIVE NoteFirst(_, _)
NoteFirst(first, calls) ==
    IF calls = <<>> THEN first
    ELSE LET c == Head(calls)
         IN  NoteFirst(IF c.name \in DOMAIN first THEN first
                       ELSE Put(first, c.name,
                                [path |-> c.result,
                                 mapped |-> ~c.fresh \/ c.parents # <<>>]),
                       Tail(calls))

Graph == [nodes |-> nodes, edges |-> edges,
          taxonomy_mappings |-> taxonomy_mappings, now |-> now]

\* No call of the search engine yet.
NoSearch == [op |-> "init", query |-> <<>>, include_hierarchy |-> FALSE,
             value |-> <<>>]

ContentNames(content) ==
    UNION {{content[i].name}
             \cup UNION {Range(content[i].relations[k].value) :
                           k \in 1..Len(content[i].relations)} :
           i \in 1..Len(content)}

----------------------------------------------------------------------------
(* Actions *)

InitGraph ==
    /\ nodes = <<>>
    /\ edges = <<>>
    /\ taxonomy_mappings = EmptyDict
    /\ current_context = NoContext
    /\ last = NoCall
    /\ first_result = EmptyDict
    /\ search_index = EmptyDict
    /\ hierarchy_cache = EmptyDict
    /\ returned = NoSearch
    /\ now = 0

Init ==
    /\ InitGraph
    /\ taxonomy = [search_to_classification |-> EmptyDict,
                   classification_to_search |-> EmptyDict,
                   aliases |-> EmptyDict]

EmptyTaxonomy == [search_to_classification |-> EmptyDict,
                  classification_to_search |-> EmptyDict,
                  aliases |-> EmptyDict]

EmptyGraph == [nodes |-> <<>>, edges |-> <<>>, taxonomy_mappings |-> EmptyDict,
               now |-> 0]

\* What a parser that started empty leaves after the file n.md of this
\* content: parse_file, then add_to_graph.
Loaded(content, ord) ==
    LET p == parse_file(EmptyTaxonomy, Doc2, content)
    IN  [graph |-> add_to_graph(EmptyGraph, p.parsed_concepts, ord),
         taxonomy |-> p.taxonomy]

\* A search engine constructed on the graph the parser left after one file.
InitSearch ==
    \E loaded \in UNION {{Loaded(content, ord) :
                               ord \in Orderings(ContentNames(content))} :
                           content \in SearchFiles} :
        /\ nodes = loaded.graph.nodes
        /\ edges = loaded.graph.edges
        /\ taxonomy_mappings = loaded.graph.taxonomy_mappings
        /\ taxonomy = loaded.taxonomy
        /\ current_context = Doc2
        /\ last = NoCall
        /\ first_result = EmptyDict
        /\ search_index = EmptyDict
        /\ hierarchy_cache = EmptyDict
        /\ returned = NoSearch
        /\ now = 0

\* A search engine constructed on the graph of the chain.
InitChain ==
    /\ nodes = ChainNodes
    /\ edges = ChainEdges
    /\ taxonomy_mappings =
          [id \in {ChainNodes[i].id : i \in 1..ChainLength} |->
              NodeOf(ChainNodes, id).classification_path]
    /\ taxonomy =
          [search_to_classification |->
              [id \in {ChainNodes[i].id : i \in 1..(ChainLength - 1)} |->
                  NodeOf(ChainNodes, id).classification_path],
           classification_to_search |->
              [path \in {ChainPath(i) : i \in 1..(ChainLength - 1)} |->
                  LastSegment(path)],
           aliases |-> EmptyDict]
    /\ current_context = Doc2
    /\ last = NoCall
    /\ first_result = EmptyDict
    /\ search_index = EmptyDict
    /\ hierarchy_cache = EmptyDict
    /\ returned = NoSearch
    /\ now = 0

\* A search engine constructed on the graph the parser left after the file
\* concepts/d.md of up to MaxLoopBlocks different blocks.
InitLoop ==
    \E content \in {c \in SeqsUpTo(LoopBlocks, MaxLoopBlocks) :
                        \A i, j \in 1..Len(c) : c[i] = c[j] => i = j} :
        \E ord \in Orderings(ContentNames(content)) :
            LET p == parse_file(EmptyTaxonomy, Doc3, content)
                G == add_to_graph(EmptyGraph, p.parsed_concepts, ord)
            IN  /\ nodes = G.nodes
                /\ edges = G.edges
                /\ taxonomy_mappings = G.taxonomy_mappings
                /\ taxonomy = p.taxonomy
                /\ current_context = Doc3
                /\ last = NoCall
                /\ first_result = EmptyDict
                /\ search_index = EmptyDict
                /\ hierarchy_cache = EmptyDict
                /\ returned = NoSearch
                /\ now = 0

\* The state the search engine only reads.
graph_vars == <<nodes, edges, taxonomy_mappings, taxonomy, current_context,
                last, first_result, now>>

\* A call of build_search_index().
BuildSearchIndex ==
    /\ search_index' = build_search_index(nodes)
    /\ returned' = [NoSearch EXCEPT !.op = "build_search_index"]
    /\ UNCHANGED <<hierarchy_cache, graph_vars>>

\* A call of get_parent_hierarchy(classification_path).
DoGetParentHierarchy(classification_path) ==
    LET h == get_parent_hierarchy(nodes, hierarchy_cache, classification_path)
    IN  /\ hierarchy_cache' = h.cache
        /\ returned' = [op |-> "get_parent_hierarchy",
                        query |-> classification_path,
                        include_hierarchy |-> FALSE,
                        value |-> h.hierarchy]
        /\ UNCHANGED <<search_index, graph_vars>>

GetParentHierarchy ==
    \E classification_path \in HierarchyPaths :
        DoGetParentHierarchy(classification_path)

GetChainHierarchy ==
    \E classification_path \in ChainQueries :
        DoGetParentHierarchy(classification_path)

\* get_parent_hierarchy on the classification path of a node of the graph.
GetNodeHierarchy ==
    \E i \in 1..Len(nodes) :
        DoGetParentHierarchy(nodes[i].classification_path)

\* A call of search(query, include_hierarchy).
Search ==
    \E query \in SearchTerms, include_hierarchy \in BOOLEAN :
        LET r == search(nodes, hierarchy_cache, query, include_hierarchy)
        IN  /\ hierarchy_cache' = r.cache
            /\ returned' = [op |-> "search", query |-> query,
                            include_hierarchy |-> include_hierarchy,
                            value |-> r.results]
            /\ UNCHANGED <<search_index, graph_vars>>

\* A call of _add_relation(source, rel_type, target, source_file).
DoAddRelation(source, rel_type, target, source_file, ord, cap) ==
    LET G2 == add_relation(Graph, source, rel_type, target, source_file, ord)
    IN  /\ Len(G2.edges) <= cap
        /\ nodes' = G2.nodes
        /\ edges' = G2.edges
        /\ last' = [op |-> "add_relation", source |-> source,
                    relation |-> rel_type, target |-> target,
                    cycle |-> CycleDetected(edges, source, rel_type, target,
                                            ord),
                    repeat |-> /\ last.op = "add_relation"
                               /\ last.source = source
                               /\ last.relation = rel_type
                               /\ last.target = target,
                    refresh |-> FALSE, calls |-> <<>>]
        /\ UNCHANGED <<taxonomy_mappings, taxonomy, current_context,
                       first_result, search_vars, now>>

AddRelation ==
    \E call \in GraphCalls :
        \E ord \in IF call[2] = "is_a"
                   THEN Orderings(NodesOf(IsAPairs(edges))
                                    \cup {call[1], call[3]})
                   ELSE {<<>>} :
            DoAddRelation(call[1], call[2], call[3], Doc1, ord, MaxEdges)

\* A call of _add_relation whose relation is is_a.
AddIsA ==
    \E source \in IsANames, target \in IsANames :
        \E ord \in Orderings(NodesOf(IsAPairs(edges)) \cup {source, target}) :
            DoAddRelation(source, "is_a", target, Doc1, ord, MaxIsAEdges)

\* One file of process_directory's loop (lines 599-604): parse_file, then
\* add_to_graph of what it parsed.
DoProcessFile(file_path, content, ord, cap) ==
    LET p == parse_file(taxonomy, file_path, content)
        calls == ParseCalls(taxonomy, file_path, content)
        G2 == add_to_graph(Graph, p.parsed_concepts, ord)
    IN  /\ Len(G2.edges) <= cap
        /\ current_context' = file_path
        /\ taxonomy' = p.taxonomy
        /\ nodes' = G2.nodes
        /\ edges' = G2.edges
        /\ taxonomy_mappings' = G2.taxonomy_mappings
        /\ last' = [NoCall EXCEPT !.op = "process_file", !.calls = calls]
        /\ first_result' = NoteFirst(first_result, calls)
        /\ UNCHANGED <<search_vars, now>>

ProcessFile ==
    \E file_path \in {Doc2}, block \in GraphBlocks :
        \E ord \in Orderings(NodesOf(IsAPairs(edges))
                               \cup ContentNames(<<block>>)) :
            DoProcessFile(file_path, <<block>>, ord, MaxEdges)

\* One file of the bank documents, under either document path.
ProcessDoc ==
    \E file_path \in Docs, content \in DocContents :
        \E ord \in Orderings(NodesOf(IsAPairs(edges))
                               \cup ContentNames(content)) :
            DoProcessFile(file_path, content, ord, MaxDocEdges)

\* A call of resolve_reference(concept_name, is_a_values).
DoResolveReference(call) ==
    LET concept_name == call[1]
        is_a_values == call[2]
        r == resolve_reference(taxonomy, current_context, concept_name,
                               is_a_values)
        calls == <<CallRecord(taxonomy, current_context, concept_name,
                              is_a_values)>>
    IN  /\ taxonomy' = r.taxonomy
        /\ last' = [NoCall EXCEPT
                      !.op = "resolve_reference",
                      !.repeat = /\ last.op = "resolve_reference"
                                 /\ last.calls[1].name = concept_name
                                 /\ last.calls[1].parents = is_a_values,
                      !.refresh = /\ last.op = "resolve_reference"
                                  /\ last.calls[1].name = concept_name
                                  /\ last.calls[1].parents = is_a_values
                                  /\ last.calls[1].fresh,
                      !.calls = calls]
        /\ first_result' = NoteFirst(first_result, calls)
        /\ UNCHANGED <<nodes, edges, taxonomy_mappings, current_context,
                       search_vars, now>>

ResolveReference == \E call \in ResolveCalls : DoResolveReference(call)

\* The same for names that end in the same segment.
ResolveShared == \E call \in SharedCalls : DoResolveReference(call)

\* A call of parse_file(file_path) on a file of one or two blocks.
ParseFile ==
    \E file_path \in Docs,
       content \in ResolveContents :
        LET p == parse_file(taxonomy, file_path, content)
            calls == ParseCalls(taxonomy, file_path, content)
        IN  /\ current_context' = file_path
            /\ taxonomy' = p.taxonomy
            /\ last' = [NoCall EXCEPT !.op = "parse_file", !.calls = calls]
            /\ first_result' = NoteFirst(first_result, calls)
            /\ UNCHANGED <<nodes, edges, taxonomy_mappings, search_vars,
                           now>>

\* The calls and files of SpecStore.
StoreAdd ==
    \E call \in StoreCalls :
        \E ord \in Orderings(NodesOf(IsAPairs(edges))
                               \cup {call[1], call[3]}) :
            DoAddRelation(call[1], call[2], call[3], Doc1, ord, MaxStoreEdges)

StoreProcess ==
    \E file_path \in {Doc2}, block \in StoreBlocks :
        \E ord \in Orderings(NodesOf(IsAPairs(edges))
                               \cup ContentNames(<<block>>)) :
            DoProcessFile(file_path, <<block>>, ord, MaxStoreEdges)

\* The insertions of SpecCycle.
CycleInsert ==
    \E call \in CycleCalls :
        \E ord \in Orderings(NodesOf(IsAPairs(edges))
                               \cup {call[1], call[3]}) :
            DoAddRelation(call[1], call[2], call[3], Doc1, ord, MaxCycleEdges)

\* A call of detect_circular_reference(source, target, relation).
Detect ==
    \E source \in IsANames, target \in IsANames,
       relation \in DetectRelations :
        \E ord \in Orderings(NodesOf(IsAPairs(edges)) \cup {source, target}) :
            /\ last' = [NoCall EXCEPT
                          !.op = "detect_circular_reference",
                          !.source = source,
                          !.relation = relation,
                          !.target = target,
                          !.cycle = detect_circular_reference(
                                       edges, source, target, relation, ord)
                                    # <<>>]
            /\ UNCHANGED <<nodes, edges, taxonomy_mappings, taxonomy,
                           current_context, first_result, search_vars, now>>

\* Time passes between two calls.
Tick ==
    /\ now < MaxTime
    /\ now' = now + 1
    /\ UNCHANGED <<nodes, edges, taxonomy_mappings, taxonomy, current_context,
                   last, first_result, search_vars>>

\* A call of parse_file on a file of one block at any of the document paths.
ParseContext ==
    \E file_path \in ContextDocs, block \in ResolveBlocks :
        LET content == <<block>>
            p == parse_file(taxonomy, file_path, content)
            calls == ParseCalls(taxonomy, file_path, content)
        IN  /\ current_context' = file_path
            /\ taxonomy' = p.taxonomy
            /\ last' = [NoCall EXCEPT !.op = "parse_file", !.calls = calls]
            /\ first_result' = NoteFirst(first_result, calls)
            /\ UNCHANGED <<nodes, edges, taxonomy_mappings, search_vars,
                           now>>

\* Building the graph: direct edge insertions and processed files.
Next == AddRelation \/ ProcessFile
Spec == Init /\ [][Next]_vars

\* Building the graph while time passes.
NextStore == Tick \/ StoreAdd \/ StoreProcess
SpecStore == Init /\ [][NextStore]_vars

\* The cycle detector on graphs with and without cycles.
NextCycle == CycleInsert \/ Detect
SpecCycle == Init /\ [][NextCycle]_vars

\* Only is_a insertions, from the empty graph.
NextIsA == AddIsA
SpecIsA == Init /\ [][NextIsA]_vars

\* The bank documents, processed in any order and under either path.
NextDocs == ProcessDoc
SpecDocs == Init /\ [][NextDocs]_vars

\* The search engine on a loaded graph.
NextSearch == Search \/ GetParentHierarchy \/ BuildSearchIndex
SpecSearch == InitSearch /\ [][NextSearch]_vars

\* The hierarchies of the chain.
NextChain == GetChainHierarchy
SpecChain == InitChain /\ [][NextChain]_vars

\* The search engine on graphs whose nodes share classification paths,
\* whose is_a relations form a cycle, or that hold a node of two parents.
NextLoop == GetNodeHierarchy
SpecLoop == InitLoop /\ [][NextLoop]_vars

\* The path resolver: direct calls and parsed files, from the taxonomy found
\* at construction.
InitResolve == InitGraph /\ taxonomy \in LoadedTaxonomies
NextResolve == ResolveReference \/ ParseFile
SpecResolve == InitResolve /\ [][NextResolve]_vars

\* The path resolver on names that end in the same segment.
NextShared == ResolveShared
SpecShared == InitResolve /\ [][NextShared]_vars

\* The path resolver under every kind of document path.
NextContext == ParseContext
SpecContext == InitResolve /\ [][NextContext]_vars

----------------------------------------------------------------------------
(* Properties *)

\* The nodes reachable from the set S along the pairs, S included.
RECURSIVE ReachFrom(_, _)
ReachFrom(pairs, S) ==
    LET more == S \cup {p[2] : p \in {q \in pairs : q[1] \in S}}
    IN  IF more = S THEN S ELSE ReachFrom(pairs, more)

\* A directed cycle: some edge's source is reachable from its target.
HasCycle(pairs) == \E p \in pairs : p[1] \in ReachFrom(pairs, {p[2]})

SegmentCount(s) == Len(Split(s))

Occurrences(lst, x) == Cardinality({i \in 1..Len(lst) : lst[i] = x})

\* C1: after any sequence of _add_relation calls, of any relation types, the
\* is_a edges of graph["edges"] contain no directed cycle.
C1_IsAAcyclicAnyRelation == ~HasCycle(IsAPairs(edges))

\* C2: from the empty graph, when every requested relation is is_a, the is_a
\* edges never form a directed cycle, and no is_a self-edge is ever inserted.
C2_IsAInsertionsAcyclic ==
    /\ \A i \in 1..Len(edges) :
          edges[i].relation = "is_a" => edges[i].source # edges[i].target
    /\ ~HasCycle(IsAPairs(edges))

\* An is_a insertion between different nodes was refused as cycle-forming,
\* on a graph that holds three accepted is_a edges.
C2_Witness ==
    /\ last.op = "add_relation"
    /\ last.cycle
    /\ last.source # last.target
    /\ Cardinality(IsAPairs(edges)) = 3

\* C3: an is_a call of _add_relation for which the detector reports a cycle
\* changes nothing: edges, nodes (their relations lists included) and
\* taxonomy_mappings are what they were, so no inverse edge was added.
C3_CycleRejectedNoMutation ==
    [][(last'.op = "add_relation" /\ last'.relation = "is_a" /\ last'.cycle)
         => /\ edges' = edges
            /\ nodes' = nodes
            /\ taxonomy_mappings' = taxonomy_mappings]_vars

\* A cycle-forming is_a call was refused on a graph whose source node exists
\* and lists relations.
C3_Witness ==
    /\ last.op = "add_relation"
    /\ last.relation = "is_a"
    /\ last.cycle
    /\ HasNode(nodes, last.source)
    /\ DOMAIN NodeOf(nodes, last.source).relations # {}
    /\ edges # <<>>

\* C4: for every edge (A, r, B) whose relation has an entry in the relation
\* table, the edge (B, inverse(r), A) is in graph["edges"] exactly once.
C4_InverseComplete ==
    \A i \in 1..Len(edges) :
        edges[i].relation \in DOMAIN relation_inverses =>
            Cardinality({j \in 1..Len(edges) :
                /\ edges[j].source = edges[i].target
                /\ edges[j].relation = relation_inverses[edges[i].relation]
                /\ edges[j].target = edges[i].source}) = 1

\* C5: no two entries of graph["edges"] share an id, and an _add_relation call
\* that repeats the call before it (same source, relation and target) leaves
\* edges and every node's relations lists as that call left them.
C5_InsertIdempotent ==
    [][/\ \A i, j \in 1..Len(edges') :
              edges'[i].id = edges'[j].id => i = j
       /\ (last'.op = "add_relation" /\ last'.repeat)
              => (edges' = edges /\ nodes' = nodes)]_vars

\* A call that had inserted its edge and the inverse was repeated, the source
\* being a node that lists the target.
C5_Witness ==
    /\ last.op = "add_relation"
    /\ last.repeat
    /\ ~last.cycle
    /\ ExistingEdge(edges, EdgeId(last.source, last.relation, last.target))
    /\ HasNode(nodes, last.source)
    /\ last.relation \in DOMAIN NodeOf(nodes, last.source).relations

\* C6: every edge (s, r, t) has s as a key of graph["nodes"] and t exactly
\* once in nodes[s].relations[r], the generated inverse edges included.
C6_NodeRelationsMirrorEdges ==
    \A i \in 1..Len(edges) :
        /\ HasNode(nodes, edges[i].source)
        /\ edges[i].relation \in DOMAIN NodeOf(nodes, edges[i].source).relations
        /\ Occurrences(NodeOf(nodes, edges[i].source).relations[edges[i].relation],
                       edges[i].target) = 1

\* C7: a resolve_reference call for a name that has an entry in
\* search_to_classification returns that entry, whatever parents it declares,
\* and leaves the entry as it was; when every call of a step is for a mapped
\* name, the three taxonomy maps are unchanged.
C7_MappedNameReturnedUnchanged ==
    [][LET cs == last'.calls
           s2c == taxonomy.search_to_classification
       IN  /\ \A i \in 1..Len(cs) :
                 cs[i].name \in DOMAIN s2c =>
                     /\ cs[i].result = s2c[cs[i].name]
                     /\ taxonomy'.search_to_classification[cs[i].name]
                            = s2c[cs[i].name]
           /\ (\A i \in 1..Len(cs) : cs[i].name \in DOMAIN s2c)
                 => taxonomy' = taxonomy]_vars

\* A mapped name was resolved with declared parents that would have given
\* another path.
C7_Witness ==
    /\ last.op = "resolve_reference"
    /\ ~last.calls[1].fresh
    /\ last.calls[1].parents # <<>>
    /\ last.calls[1].result #
          JoinPath(PrimaryParent(last.calls[1].parents),
                   LastSegment(last.calls[1].name))

\* C8: a resolve_reference call that repeats the call before it, with the
\* same name and the same declared parents, returns the same path.
C8_ResolveTwiceSamePath ==
    [][(last'.op = "resolve_reference" /\ last'.repeat)
          => last'.calls[1].result = last.calls[1].result]_vars

\* The repeated call declared two parents, and the first of the two calls
\* had found the name unmapped.
C8_Witness ==
    /\ last.op = "resolve_reference"
    /\ last.refresh
    /\ Len(last.calls[1].parents) = 2
    /\ last.calls[1].parents[1] # last.calls[1].parents[2]

\* C9 as stated: every resolve_reference call for a name returns the path
\* that the first call for that name returned.
C9_NeverShifts ==
    \A i \in 1..Len(last.calls) :
        last.calls[i].result = first_result[last.calls[i].name].path

\* C9 as amended: every resolve_reference call for a name returns the path
\* that the first call for that name returned, provided that first call left
\* the name mapped (it found it mapped, or it declared parents).
C9_NeverShiftsOnceMapped ==
    \A i \in 1..Len(last.calls) :
        first_result[last.calls[i].name].mapped =>
            last.calls[i].result = first_result[last.calls[i].name].path

\* A later call for a name whose first call had mapped it, made in a document
\* with a hierarchy and declaring parents that would give another path.
C9_Witness ==
    /\ last.calls # <<>>
    /\ ~last.calls[1].fresh
    /\ first_result[last.calls[1].name].mapped
    /\ last.calls[1].ctx = Doc1
    /\ last.calls[1].parents # <<>>
    /\ last.calls[1].result #
          JoinPath(PrimaryParent(last.calls[1].parents),
                   LastSegment(last.calls[1].name))

Deepest(parents) ==
    {p \in Range(parents) :
        \A q \in Range(parents) : SegmentCount(q) <= SegmentCount(p)}

\* The lexicographically first string of a set.
LexFirst(S) == CHOOSE p \in S : \A q \in S : p = q \/ StrLess(p, q)

\* C11: for an unmapped name with declared parents, the primary parent is the
\* lexicographically first of the parents of the greatest segment count, so
\* the path returned does not depend on the order of declaration.
C11_TieBreakLexicographic ==
    \A i \in 1..Len(last.calls) :
        LET c == last.calls[i]
        IN  (c.fresh /\ c.parents # <<>>) =>
                c.result = JoinPath(LexFirst(Deepest(c.parents)),
                                    LastSegment(c.name))

\* C12: for an unmapped name with more than one declared parent, the parents
\* pairwise different, taxonomy.aliases[name] holds exactly the non-primary
\* declared parents, each joined with the local name, and never the primary
\* classification path.
C12_AliasesNonPrimary ==
    \A i \in 1..Len(last.calls) :
        LET c == last.calls[i]
            others == {JoinPath(p, LastSegment(c.name)) : p \in Range(c.parents)}
                          \ {c.result}
        IN  (/\ c.fresh
             /\ Len(c.parents) > 1
             /\ Cardinality(Range(c.parents)) = Len(c.parents)) =>
                /\ c.name \in DOMAIN taxonomy.aliases
                /\ Range(taxonomy.aliases[c.name]) = others
                /\ c.result \notin Range(taxonomy.aliases[c.name])

\* C13: a file that declares the bank concept is_a institution/financial and
\* then credit_union is_a bank/financial, both names unmapped, gives bank the
\* classification path institution/financial/bank and credit_union the path
\* institution/financial/bank/credit_union.
C13_BankScenario ==
    (/\ last.op = "process_file"
     /\ Len(last.calls) = 2
     /\ last.calls[1].fresh
     /\ last.calls[1].parents = <<InstitutionFinancial>>
     /\ last.calls[2].fresh
     /\ last.calls[2].name = CreditUnion
     /\ last.calls[2].parents = <<BankFinancial>>)
        => /\ last.calls[1].result = JoinPath(InstitutionFinancial, Bank)
           /\ last.calls[2].result =
                  JoinPath(JoinPath(InstitutionFinancial, Bank), CreditUnion)
           /\ NodeOf(nodes, CreditUnion).classification_path =
                  JoinPath(JoinPath(InstitutionFinancial, Bank), CreditUnion)

\* C20: processing a file leaves every node that existed in its place with
\* its classification_path; the sources of a node never list a document
\* twice, and they grow by exactly the processed document when a block of the
\* file names the node.
C20_ExistingNodeKept ==
    [][last'.op = "process_file" =>
          \A i \in 1..Len(nodes) :
              LET old == nodes[i]
                  new == nodes'[i]
                  named == \E k \in 1..Len(last'.calls) :
                               last'.calls[k].name = old.id
              IN  /\ new.id = old.id
                  /\ new.classification_path = old.classification_path
                  /\ \A j, k \in 1..Len(new.sources) :
                        new.sources[j] = new.sources[k] => j = k
                  /\ Range(new.sources) =
                        Range(old.sources)
                          \cup (IF named THEN {current_context'} ELSE {})]_vars

\* A block named a node that two documents list, the processed document
\* being the one listed first, and the resolver returned a classification
\* path other than the node's.
C20_Witness ==
    /\ last.op = "process_file"
    /\ \E k \in 1..Len(last.calls) :
          LET c == last.calls[k]
          IN  /\ HasNode(nodes, c.name)
              /\ NodeOf(nodes, c.name).classification_path # c.result
              /\ Len(NodeOf(nodes, c.name).sources) = 2
              /\ NodeOf(nodes, c.name).sources[1] = current_context

\* C21: no step removes a node or an edge: the nodes and the edges of before
\* are there after it in their places, every edge with all its fields and
\* every node with its created timestamp.
C21_NothingRemovedOrRestamped ==
    [][/\ Len(nodes') >= Len(nodes)
       /\ Len(edges') >= Len(edges)
       /\ \A i \in 1..Len(nodes) :
             /\ nodes'[i].id = nodes[i].id
             /\ nodes'[i].created = nodes[i].created
       /\ \A i \in 1..Len(edges) : edges'[i] = edges[i]]_vars

\* A file was processed that names a node created at an earlier reading of
\* the clock, after an edge inserted at another reading than the first edge.
C21_Witness ==
    /\ last.op = "process_file"
    /\ \E i \in 1..Len(nodes) :
          /\ nodes[i].created < now
          /\ \E k \in 1..Len(last.calls) : last.calls[k].name = nodes[i].id
    /\ \E i \in 1..Len(edges) : edges[i].created # edges[1].created

Triple(edge) == <<edge.source, edge.relation, edge.target>>

\* C22: a call of _add_relation leaves the edges of before in place and
\* appends at most two: the requested edge first and then its inverse
\* (target, inverse(relation), source); for a relation that the relation
\* table does not hold it appends the requested edge alone, and does append
\* it when no edge of its id was there.
C22_AtMostEdgeAndInverse ==
    [][last'.op = "add_relation" =>
          LET added == SubSeq(edges', Len(edges) + 1, Len(edges'))
              known == last'.relation \in DOMAIN relation_inverses
          IN  /\ Len(edges') >= Len(edges)
              /\ SubSeq(edges', 1, Len(edges)) = edges
              /\ Len(added) <= 2
              /\ Len(added) >= 1 =>
                    Triple(added[1])
                        = <<last'.source, last'.relation, last'.target>>
              /\ Len(added) = 2 =>
                    /\ known
                    /\ Triple(added[2])
                          = <<last'.target, relation_inverses[last'.relation],
                              last'.source>>
              /\ ~known =>
                    /\ Len(added) <= 1
                    /\ ~ExistingEdge(edges, EdgeId(last'.source,
                                                   last'.relation,
                                                   last'.target))
                          => Len(added) = 1]_vars

\* The last call asked for a relation outside the table and its edge is the
\* last of the graph, which also holds an is_a edge followed by its inverse.
C22_Witness ==
    /\ last.op = "add_relation"
    /\ last.relation \notin DOMAIN relation_inverses
    /\ Len(edges) >= 3
    /\ Triple(edges[Len(edges)]) = <<last.source, last.relation, last.target>>
    /\ \E i \in 1..(Len(edges) - 1) :
          /\ edges[i].relation = "is_a"
          /\ Triple(edges[i + 1])
                = <<edges[i].target, "has_instance", edges[i].source>>

\* C23: the inverse of every key of relation_inverses is a key, and its
\* inverse is the key again; so it is for the relation of every edge of the
\* graph that is a key.
C23_TableClosedInvolution ==
    /\ \A r \in DOMAIN relation_inverses :
          /\ relation_inverses[r] \in DOMAIN relation_inverses
          /\ relation_inverses[relation_inverses[r]] = r
    /\ \A i \in 1..Len(edges) :
          edges[i].relation \in DOMAIN relation_inverses =>
              relation_inverses[relation_inverses[edges[i].relation]]
                  = edges[i].relation

\* The table was used: an edge of the graph is followed by its inverse,
\* whose relation the table leads back from.
C23_Witness ==
    \E i \in 1..(Len(edges) - 1) :
        /\ edges[i].relation \in DOMAIN relation_inverses
        /\ Triple(edges[i + 1])
              = <<edges[i].target, relation_inverses[edges[i].relation],
                  edges[i].source>>
        /\ relation_inverses[edges[i + 1].relation] = edges[i].relation

\* A cycle of the pairs can be reached from the node.
CycleReachable(pairs, node) ==
    \E n \in ReachFrom(pairs, {node}) :
        n \in ReachFrom(pairs, {p[2] : p \in {q \in pairs : q[1] = n}})
           /\ \E q \in pairs : q[1] = n

\* C24: detect_circular_reference(source, target, relation) returns a cycle
\* exactly when the relation is is_a and the is_a edges with the proposed
\* edge hold a cycle that can be reached from source.
C24_CycleIffReachable ==
    last.op = "detect_circular_reference" =>
        (last.cycle <=>
            /\ last.relation = "is_a"
            /\ CycleReachable(IsAPairs(edges)
                                 \cup {<<last.source, last.target>>},
                               last.source))

\* A call with is_a returned None although the target is reached twice from
\* the source: by the proposed edge and through another node.
C24_Witness ==
    /\ last.op = "detect_circular_reference"
    /\ last.relation = "is_a"
    /\ ~last.cycle
    /\ \E x \in IsANames \ {last.source, last.target} :
          {<<last.source, x>>, <<x, last.target>>} \subseteq IsAPairs(edges)

\* C25: a resolve_reference call for an unmapped name without declared
\* parents returns the classification path of the document being processed
\* followed by "/" and the local name when that path has two segments or
\* more, and the name itself when there is no document or its path is a
\* single segment.
C25_ContextInheritedOrName ==
    \A k \in 1..Len(last.calls) :
        LET c == last.calls[k]
            context_path == get_context_classification(c.ctx)
        IN  (c.fresh /\ c.parents = <<>>) =>
                IF c.ctx # NoContext /\ SegmentCount(context_path) >= 2
                THEN c.result = JoinPath(context_path, LastSegment(c.name))
                ELSE c.result = c.name

\* C26: every node has an entry in graph["taxonomy_mappings"] that is its
\* classification path and, when the node's id is mapped in
\* search_to_classification, that mapping.
C26_MappingsDuplicateTaxonomy ==
    \A i \in 1..Len(nodes) :
        LET s == nodes[i].id
        IN  /\ s \in DOMAIN taxonomy_mappings
            /\ taxonomy_mappings[s] = nodes[i].classification_path
            /\ s \in DOMAIN taxonomy.search_to_classification =>
                  taxonomy_mappings[s]
                      = taxonomy.search_to_classification[s]

\* C27: classification_to_search leads every mapped search path's
\* classification path back to that search path.
C27_MapsMutuallyInverse ==
    \A s \in DOMAIN taxonomy.search_to_classification :
        LET path == taxonomy.search_to_classification[s]
        IN  /\ path \in DOMAIN taxonomy.classification_to_search
            /\ taxonomy.classification_to_search[path] = s

\* Has(d, key, value): d[key] is value
Has(d, key, value) == key \in DOMAIN d /\ d[key] = value

\* C28: when a processed file holds a block [[c]]{is_a: p} whose is_a edge
\* (c, p) would close a cycle and is not in the graph afterwards, the step
\* leaves no new mapping of c to p/c in search_to_classification, none of
\* p/c to c in classification_to_search, no new taxonomy_mappings entry of
\* p/c for c, and no new node of path p/c.
C28_RefusedDeclarationNotApplied ==
    [][last'.op = "process_file" =>
          \A k \in 1..Len(last'.calls) :
              LET c == last'.calls[k].name
                  parents == last'.calls[k].parents
                  path == JoinPath(parents[1], LastSegment(c))
              IN  (/\ Len(parents) = 1
                   /\ CycleReachable(IsAPairs(edges) \cup {<<c, parents[1]>>},
                                     c)
                   /\ ~ExistingEdge(edges', EdgeId(c, "is_a", parents[1])))
                  =>
                  /\ Has(taxonomy'.search_to_classification, c, path)
                        => Has(taxonomy.search_to_classification, c, path)
                  /\ Has(taxonomy'.classification_to_search, path, c)
                        => Has(taxonomy.classification_to_search, path, c)
                  /\ Has(taxonomy_mappings', c, path)
                        => Has(taxonomy_mappings, c, path)
                  /\ \A i \in 1..Len(nodes') :
                        nodes'[i].classification_path = path =>
                            /\ i <= Len(nodes)
                            /\ nodes[i].classification_path = path]_vars

----------------------------------------------------------------------------
(* Properties of the search engine *)

ABC == <<"a", Slash, "b", Slash, "c">>

\* The segments of a node's classification path that match the query.
Hits(node, query) ==
    LET parts == Split(node.classification_path)
    IN  {i \in 1..Len(parts) : Matches(Lower(query), parts[i])}

\* The node matches the query by a segment of its id only.
FallbackMatch(node, query) ==
    /\ Hits(node, query) = {}
    /\ \E i \in 1..Len(Split(node.id)) :
          Matches(Lower(query), Split(node.id)[i])

\* The path a matching node is truncated to.
TruncatedPath(node, query) ==
    Join(SubSeq(Split(node.classification_path), 1,
                MatchIndex(node, Lower(query))))

\* The nodes a search for the query matches, by their positions.
Matching(query) ==
    {i \in 1..Len(nodes) : MatchIndex(nodes[i], Lower(query)) # 0}

\* A result without its hierarchy.
Plain(r) == [f \in (DOMAIN r) \ {"hierarchy"} |-> r[f]]

\* C14: every result of search is the prefix of its full classification path
\* that ends at the first segment matching the term, when a segment matches,
\* and its specificity is the segment count of that prefix; for a node of
\* path a/b/c, "b" gives a/b with specificity 2, "c" gives a/b/c with 3 and
\* "a" gives a with 1.
C14_TruncatedAtFirstMatch ==
    returned.op = "search" =>
        /\ \A k \in 1..Len(returned.value) :
              LET r == returned.value[k]
                  parts == Split(r.full_classification_path)
                  hits == {i \in 1..Len(parts) :
                              Matches(Lower(returned.query), parts[i])}
              IN  /\ r.specificity = SegmentCount(r.classification_path)
                  /\ r.specificity <= Len(parts)
                  /\ r.classification_path =
                        Join(SubSeq(parts, 1, r.specificity))
                  /\ hits # {} =>
                        /\ r.specificity \in hits
                        /\ \A i \in hits : r.specificity <= i
        /\ (\E i \in 1..Len(nodes) : nodes[i].classification_path = ABC) =>
              LET Gives(path, specificity) ==
                      \E k \in 1..Len(returned.value) :
                          /\ returned.value[k].classification_path = path
                          /\ returned.value[k].specificity = specificity
              IN  /\ returned.query = <<"b">> => Gives(<<"a", Slash, "b">>, 2)
                  /\ returned.query = <<"c">> => Gives(ABC, 3)
                  /\ returned.query = <<"a">> => Gives(<<"a">>, 1)

\* A search for "b" returned a/B for a node of path a/B/b, whose last
\* segment matches as well.
C14_Witness ==
    /\ returned.op = "search"
    /\ returned.query = <<"b">>
    /\ \E k \in 1..Len(returned.value) :
          /\ returned.value[k].full_classification_path =
                <<"a", Slash, "B", Slash, "b">>
          /\ returned.value[k].classification_path = <<"a", Slash, "B">>

\* C15: the results of search are in the order of specificity descending
\* and, at equal specificity, truncated path ascending; with hierarchy
\* enrichment they are the results without it, in the same order, each with
\* a hierarchy attached.
C15_SortedEnrichmentNeutral ==
    returned.op = "search" =>
        /\ \A i, j \in 1..Len(returned.value) :
              i < j =>
                LET x == returned.value[i]
                    y == returned.value[j]
                IN  \/ x.specificity > y.specificity
                    \/ /\ x.specificity = y.specificity
                       /\ \/ x.classification_path = y.classification_path
                          \/ StrLess(x.classification_path,
                                     y.classification_path)
        /\ returned.include_hierarchy =>
              /\ \A k \in 1..Len(returned.value) :
                    "hierarchy" \in DOMAIN returned.value[k]
              /\ [k \in 1..Len(returned.value) |-> Plain(returned.value[k])]
                    = search(nodes, EmptyDict, returned.query, FALSE).results

\* An enriched search returned two results of equal specificity in another
\* order than the nodes gave them.
C15_Witness ==
    /\ returned.op = "search"
    /\ returned.include_hierarchy
    /\ Len(returned.value) = 2
    /\ returned.value[1].specificity = returned.value[2].specificity
    /\ NodeIndex(nodes, returned.value[2].search_path)
          < NodeIndex(nodes, returned.value[1].search_path)

\* C16: no two results of search have the same truncated classification
\* path, and the result of a path is from the first node, in the order of
\* graph["nodes"], that truncates to it.
C16_DedupFirstWins ==
    returned.op = "search" =>
        \A k \in 1..Len(returned.value) :
            LET r == returned.value[k]
                givers == {i \in Matching(returned.query) :
                              TruncatedPath(nodes[i], returned.query)
                                  = r.classification_path}
            IN  /\ \A m \in 1..Len(returned.value) :
                      returned.value[m].classification_path
                          = r.classification_path => m = k
                /\ givers # {}
                /\ r.search_path =
                      nodes[CHOOSE i \in givers : \A j \in givers : i <= j].id

\* A search matched two nodes that truncate to one path.
C16_Witness ==
    /\ returned.op = "search"
    /\ Len(returned.value) = 1
    /\ Cardinality(Matching(returned.query)) = 2

\* C17 as stated: a node matched by a segment of its id only is returned
\* with its full classification path and the specificity of its segment
\* count; a node matched by no segment is not returned.
C17_FallbackReturnsNode ==
    returned.op = "search" =>
        \A i \in 1..Len(nodes) :
            /\ FallbackMatch(nodes[i], returned.query) =>
                  \E k \in 1..Len(returned.value) :
                      LET r == returned.value[k]
                      IN  /\ r.search_path = nodes[i].id
                          /\ r.classification_path =
                                nodes[i].classification_path
                          /\ r.specificity =
                                SegmentCount(nodes[i].classification_path)
            /\ i \notin Matching(returned.query) =>
                  \A k \in 1..Len(returned.value) :
                      returned.value[k].search_path # nodes[i].id

\* C17 as amended: a node matched by a segment of its id only is returned
\* with its full classification path and the specificity of its segment
\* count, unless an earlier node already gave the result of that path, which
\* is then returned for that node instead; a node matched by no segment is
\* not returned.
C17_FallbackReturnsNodeOrEarlier ==
    returned.op = "search" =>
        \A i \in 1..Len(nodes) :
            /\ FallbackMatch(nodes[i], returned.query) =>
                  \E k \in 1..Len(returned.value) :
                      LET r == returned.value[k]
                      IN  /\ r.classification_path =
                                nodes[i].classification_path
                          /\ r.specificity =
                                SegmentCount(nodes[i].classification_path)
                          /\ \/ r.search_path = nodes[i].id
                             \/ \E j \in 1..(i - 1) :
                                   /\ j \in Matching(returned.query)
                                   /\ TruncatedPath(nodes[j], returned.query)
                                         = nodes[i].classification_path
                                   /\ r.search_path = nodes[j].id
            /\ i \notin Matching(returned.query) =>
                  \A k \in 1..Len(returned.value) :
                      returned.value[k].search_path # nodes[i].id

\* A search returned a node of three path segments that only its id
\* matched, from a graph with a node that nothing matched.
C17_Witness ==
    /\ returned.op = "search"
    /\ \E i \in 1..Len(nodes) :
          /\ FallbackMatch(nodes[i], returned.query)
          /\ SegmentCount(nodes[i].classification_path) = 3
          /\ \E k \in 1..Len(returned.value) :
                returned.value[k].search_path = nodes[i].id
    /\ \E i \in 1..Len(nodes) : i \notin Matching(returned.query)

\* The entries of the index that are the node's, as <<key, position>>.
EntriesOf(node) ==
    {e \in UNION {{<<key, j>> : j \in 1..Len(search_index[key])} :
                     key \in DOMAIN search_index} :
        search_index[e[1]][e[2]].search_path = node.id}

\* C18: after build_search_index a node has one index entry per prefix of
\* its classification path, under the key of the prefix's last segment and
\* with the prefix's segment count as specificity, and no other entry: three
\* entries for a/b/c.
C18_OneEntryPerPrefix ==
    returned.op = "build_search_index" =>
        \A n \in 1..Len(nodes) :
            LET parts == Split(nodes[n].classification_path)
            IN  /\ Cardinality(EntriesOf(nodes[n])) = Len(parts)
                /\ \A i \in 1..Len(parts) :
                      \E e \in EntriesOf(nodes[n]) :
                          /\ e[1] = Lower(parts[i])
                          /\ search_index[e[1]][e[2]].specificity = i

\* C19: get_parent_hierarchy on the classification path of a node returns
\* that path and at most 10 ancestors; on the most specific node of a chain
\* of 12 or more nodes it returns the paths of the first nodes of the chain
\* in their order, the chain's root not among them.
C19_AtMostTenHops ==
    returned.op = "get_parent_hierarchy" =>
        /\ (\E i \in 1..Len(nodes) :
                nodes[i].classification_path = returned.query)
              => Len(returned.value) - 1 <= 10
        /\ (returned.query = ChainHead /\ Len(nodes) >= 12) =>
              /\ \A k \in 1..Len(returned.value) :
                    returned.value[k] = nodes[k].classification_path
              /\ nodes[Len(nodes)].classification_path
                    \notin Range(returned.value)

\* The hierarchy of the most specific node of a chain of 12 or more nodes
\* was returned with ten ancestors.
C19_Witness ==
    /\ returned.op = "get_parent_hierarchy"
    /\ returned.query = ChainHead
    /\ Len(nodes) >= 12
    /\ Len(returned.value) = 11

\* The traversal that ends at the first is_a target whose classification
\* path is already in the result.
RECURSIVE ClimbStopping(_, _, _, _)
ClimbStopping(ns, current, depth, hierarchy) ==
    IF current = <<>> \/ depth >= max_depth THEN hierarchy
    ELSE LET is_a_targets ==
                 IF HasNode(ns, current)
                    /\ "is_a" \in DOMAIN NodeOf(ns, current).relations
                 THEN NodeOf(ns, current).relations["is_a"]
                 ELSE <<>>
         IN  IF is_a_targets = <<>> THEN hierarchy
             ELSE LET target == is_a_targets[1]
                      target_classification ==
                          IF HasNode(ns, target)
                          THEN NodeOf(ns, target).classification_path
                          ELSE target
                  IN  IF target_classification \in Range(hierarchy)
                      THEN hierarchy
                      ELSE ClimbStopping(ns, target, depth + 1,
                                         Append(hierarchy,
                                                target_classification))

\* C29: the list get_parent_hierarchy returns for the classification path
\* of a node holds no path twice, and it is the list of the traversal that
\* ends at the first is_a target whose classification path was already
\* visited: nothing reached beyond such a target is in it.
C29_StopsAtVisitedPath ==
    (/\ returned.op = "get_parent_hierarchy"
     /\ \E i \in 1..Len(nodes) :
            nodes[i].classification_path = returned.query)
    =>
    LET owners == {i \in 1..Len(nodes) :
                      nodes[i].classification_path = returned.query}
        first == CHOOSE i \in owners : \A j \in owners : i <= j
    IN  /\ \A i, j \in 1..Len(returned.value) :
              returned.value[i] = returned.value[j] => i = j
        /\ returned.value =
              ClimbStopping(nodes, nodes[first].id, 0, <<returned.query>>)

\* C30: when get_parent_hierarchy is called on the canonical classification
\* path of a node declared with several is_a parents, the target it follows
\* is the primary parent, the one whose path the node is classified under,
\* and the second path of the result is that parent's classification path.
C30_FollowsPrimaryParent ==
    \A i \in 1..Len(nodes) :
        (/\ returned.op = "get_parent_hierarchy"
         /\ returned.query = nodes[i].classification_path
         /\ \A j \in 1..(i - 1) :
                nodes[j].classification_path # returned.query
         /\ nodes[i].id \in DOMAIN taxonomy.aliases
         /\ Has(taxonomy.search_to_classification, nodes[i].id,
                nodes[i].classification_path))
        =>
        LET parts == Split(nodes[i].classification_path)
            primary == Join(SubSeq(parts, 1, Len(parts) - 1))
        IN  /\ nodes[i].relations["is_a"][1] = primary
            /\ Len(returned.value) >= 2
            /\ returned.value[2] =
                  IF HasNode(nodes, primary)
                  THEN NodeOf(nodes, primary).classification_path
                  ELSE primary

====
